---- MODULE Spec2Model ----
(***************************************************************************)
(* A model of src/schedule.rs of zermelo-rs: the Schedule client, its two  *)
(* constructors (Schedule::new, Schedule::with_access_token) and           *)
(* Schedule::get_appointments.                                             *)
(*                                                                         *)
(* Text (a Rust String) is a sequence of one-character strings.  The       *)
(* response body is real JSON text; the renaming pass is str::replace on   *)
(* that text and decoding is a JSON parser followed by the typed           *)
(* deserialisation the derive(Deserialize) structs ask for.                *)
(***************************************************************************)
EXTENDS Integers, Sequences, FiniteSets, TLC

(***************************************************************************)
(* Bounds of the model.                                                    *)
(***************************************************************************)
\* Longest data array of a response drawn in the sorting specification.
MaxRecs == 3
\* Longest authorization code drawn in the authentication specification.
MaxCode == 3
\* Number of operations of one behaviour of the client specification.
MaxCalls == 3

(***************************************************************************)
(* Text.                                                                   *)
(***************************************************************************)
QUOTE == "\""

Digits == <<"0", "1", "2", "3", "4", "5", "6", "7", "8", "9">>

IsDigit(c) == \E d \in 1..10 : Digits[d] = c

DigitValue(c) == (CHOOSE d \in 1..10 : Digits[d] = c) - 1

\* s[i..] starts with pat
MatchAt(s, pat, i) ==
    /\ i + Len(pat) - 1 <= Len(s)
    /\ \A j \in 1..Len(pat) : s[i + j - 1] = pat[j]

Min(S) == CHOOSE x \in S : \A y \in S : x <= y

\* Recursion is per match, not per character.
RECURSIVE ReplaceFrom(_, _, _, _)
ReplaceFrom(s, from, to, i) ==
    LET ms == {p \in i..Len(s) : MatchAt(s, from, p)} IN
    IF ms = {} THEN SubSeq(s, i, Len(s))
    ELSE SubSeq(s, i, Min(ms) - 1) \o to \o ReplaceFrom(s, from, to, Min(ms) + Len(from))

\* str::replace(from, to): every non-overlapping match of from, left to right.
Replace(s, from, to) == ReplaceFrom(s, from, to, 1)

\* The property names of the renaming pass, as text.
AppointmentInstance ==
    <<"a","p","p","o","i","n","t","m","e","n","t","I","n","s","t","a","n","c","e">>
Appointment_instance ==
    <<"a","p","p","o","i","n","t","m","e","n","t","_","i","n","s","t","a","n","c","e">>
StartTimeSlot == <<"s","t","a","r","t","T","i","m","e","S","l","o","t">>
Start_time_slot == <<"s","t","a","r","t","_","t","i","m","e","_","s","l","o","t">>
EndTimeSlot == <<"e","n","d","T","i","m","e","S","l","o","t">>
End_time_slot == <<"e","n","d","_","t","i","m","e","_","s","l","o","t">>
Type == <<"t","y","p","e">>
Appointment_type == <<"a","p","p","o","i","n","t","m","e","n","t","_","t","y","p","e">>
LastModified == <<"l","a","s","t","M","o","d","i","f","i","e","d">>
Last_modified == <<"l","a","s","t","_","m","o","d","i","f","i","e","d">>
ChangeDescription ==
    <<"c","h","a","n","g","e","D","e","s","c","r","i","p","t","i","o","n">>
Change_description ==
    <<"c","h","a","n","g","e","_","d","e","s","c","r","i","p","t","i","o","n">>
BranchOfSchool == <<"b","r","a","n","c","h","O","f","S","c","h","o","o","l">>
Branch_of_school == <<"b","r","a","n","c","h","_","o","f","_","s","c","h","o","o","l">>

\* The names the decoder looks up.
KeyResponse == <<"r","e","s","p","o","n","s","e">>
KeyData == <<"d","a","t","a">>
KeyId == <<"i","d">>
KeyStart == <<"s","t","a","r","t">>
KeySubjects == <<"s","u","b","j","e","c","t","s">>
KeyAccessToken == <<"a","c","c","e","s","s","_","t","o","k","e","n">>

\* The renaming pass of get_appointments: seven str::replace calls in sequence.
RenamePass(body) ==
    Replace(Replace(Replace(Replace(Replace(Replace(Replace(body,
        AppointmentInstance, Appointment_instance),
        StartTimeSlot, Start_time_slot),
        EndTimeSlot, End_time_slot),
        Type, Appointment_type),
        LastModified, Last_modified),
        ChangeDescription, Change_description),
        BranchOfSchool, Branch_of_school)

(***************************************************************************)
(* JSON text to a JSON value (serde_json's reader).  Strings hold no       *)
(* backslash escapes in the texts of this model.  A value is a record      *)
(* [t, n, s, items]: t is "num", "str", "arr", "obj", "true", "false" or   *)
(* "null"; an object's items are [k, v] pairs in document order.           *)
(***************************************************************************)
Punct == {"{", "}", "[", "]", ":", ","}

Whitespace == {" ", "\t", "\n", "\r"}

TRUE_TEXT == <<"t","r","u","e">>
FALSE_TEXT == <<"f","a","l","s","e">>
NULL_TEXT == <<"n","u","l","l">>

Tok(t, c, s, n) == [t |-> t, c |-> c, s |-> s, n |-> n]

LexFail == [ok |-> FALSE, toks |-> <<>>]

Letters ==
    {"a","b","c","d","e","f","g","h","i","j","k","l","m",
     "n","o","p","q","r","s","t","u","v","w","x","y","z"}

RECURSIVE DigitsValue(_, _, _, _)
DigitsValue(s, i, j, acc) ==
    IF i > j THEN acc ELSE DigitsValue(s, i + 1, j, acc * 10 + DigitValue(s[i]))

\* The class of every character of s: "o" and "c" the quotes that open and close a
\* string, "s" inside a string, and outside strings "p" punctuation, "w" whitespace,
\* "n" part of a number, "a" a letter, "x" anything else.
CharClass(s) ==
    LET quotes == {i \in 1..Len(s) : s[i] = QUOTE}
        before == [i \in 1..Len(s) |-> Cardinality({q \in quotes : q < i})]
    IN  [i \in 1..Len(s) |->
            IF s[i] = QUOTE THEN (IF before[i] % 2 = 0 THEN "o" ELSE "c")
            ELSE IF before[i] % 2 = 1 THEN "s"
            ELSE IF s[i] \in Punct THEN "p"
            ELSE IF s[i] \in Whitespace THEN "w"
            ELSE IF s[i] = "-" \/ IsDigit(s[i]) THEN "n"
            ELSE IF s[i] \in Letters THEN "a"
            ELSE "x"]

\* The tokens of s: punctuation, strings, numbers (-?digits) and the literals true,
\* false and null, with whitespace between them skipped.  Tokens are found by
\* position, in document order.
Lex(s) ==
    LET cls == CharClass(s)
        start(p) == \/ cls[p] \in {"p", "o"}
                    \/ cls[p] \in {"n", "a"} /\ (p = 1 \/ cls[p - 1] # cls[p])
        starts == SelectSeq([p \in 1..Len(s) |-> p], start)
        runEnd(p) == CHOOSE e \in p..Len(s) :
                        /\ e = Len(s) \/ cls[e + 1] # cls[p]
                        /\ \A k \in p..e : cls[k] = cls[p]
        closing(p) == CHOOSE q \in (p + 1)..Len(s) : cls[q] = "c"
        number(p) == /\ \A k \in (p + 1)..runEnd(p) : s[k] # "-"
                     /\ (s[p] = "-" => runEnd(p) > p)
        literal(p) == \/ SubSeq(s, p, runEnd(p)) = TRUE_TEXT
                      \/ SubSeq(s, p, runEnd(p)) = FALSE_TEXT
                      \/ SubSeq(s, p, runEnd(p)) = NULL_TEXT
        token(p) ==
            IF cls[p] = "p" THEN Tok("p", s[p], <<>>, 0)
            ELSE IF cls[p] = "o" THEN Tok("s", "", SubSeq(s, p + 1, closing(p) - 1), 0)
            ELSE IF cls[p] = "n"
                 THEN Tok("n", "", <<>>,
                          IF s[p] = "-" THEN 0 - DigitsValue(s, p + 1, runEnd(p), 0)
                          ELSE DigitsValue(s, p, runEnd(p), 0))
            ELSE Tok("l", IF s[p] = "t" THEN "true" ELSE IF s[p] = "f" THEN "false"
                          ELSE "null", <<>>, 0)
    IN  IF \/ Len(s) > 0 /\ cls[Len(s)] \in {"o", "s"}
           \/ \E p \in 1..Len(s) : cls[p] = "x"
           \/ \E k \in 1..Len(starts) :
                \/ cls[starts[k]] = "n" /\ ~number(starts[k])
                \/ cls[starts[k]] = "a" /\ ~literal(starts[k])
        THEN LexFail
        ELSE [ok |-> TRUE, toks |-> [k \in 1..Len(starts) |-> token(starts[k])]]

JVal(t, n, s, items) == [t |-> t, n |-> n, s |-> s, items |-> items]

ParseFail == [ok |-> FALSE, v |-> JVal("null", 0, <<>>, <<>>), n |-> 0]

IsP(toks, i, c) == i <= Len(toks) /\ toks[i].t = "p" /\ toks[i].c = c

RECURSIVE ParseValue(_, _)
RECURSIVE ParseElements(_, _, _)
RECURSIVE ParseMembers(_, _, _)

\* the elements of an array after "[" or ",": value, then "," or "]"
ParseElements(toks, i, acc) ==
    LET e == ParseValue(toks, i) IN
    IF ~e.ok THEN ParseFail
    ELSE IF IsP(toks, e.n, ",") THEN ParseElements(toks, e.n + 1, Append(acc, e.v))
    ELSE IF IsP(toks, e.n, "]")
         THEN [ok |-> TRUE, v |-> JVal("arr", 0, <<>>, Append(acc, e.v)), n |-> e.n + 1]
    ELSE ParseFail

\* the members of an object after "{" or ",": string ":" value, then "," or "}"
ParseMembers(toks, i, acc) ==
    IF ~(i + 1 <= Len(toks) /\ toks[i].t = "s" /\ IsP(toks, i + 1, ":")) THEN ParseFail
    ELSE LET e == ParseValue(toks, i + 2) IN
      IF ~e.ok THEN ParseFail
      ELSE LET acc2 == Append(acc, [k |-> toks[i].s, v |-> e.v]) IN
        IF IsP(toks, e.n, ",") THEN ParseMembers(toks, e.n + 1, acc2)
        ELSE IF IsP(toks, e.n, "}")
             THEN [ok |-> TRUE, v |-> JVal("obj", 0, <<>>, acc2), n |-> e.n + 1]
        ELSE ParseFail

ParseValue(toks, i) ==
    IF i > Len(toks) THEN ParseFail
    ELSE LET k == toks[i] IN
      IF k.t = "n" THEN [ok |-> TRUE, v |-> JVal("num", k.n, <<>>, <<>>), n |-> i + 1]
      ELSE IF k.t = "s" THEN [ok |-> TRUE, v |-> JVal("str", 0, k.s, <<>>), n |-> i + 1]
      ELSE IF k.t = "l" THEN [ok |-> TRUE, v |-> JVal(k.c, 0, <<>>, <<>>), n |-> i + 1]
      ELSE IF k.c = "[" THEN
        IF IsP(toks, i + 1, "]")
        THEN [ok |-> TRUE, v |-> JVal("arr", 0, <<>>, <<>>), n |-> i + 2]
        ELSE ParseElements(toks, i + 1, <<>>)
      ELSE IF k.c = "{" THEN
        IF IsP(toks, i + 1, "}")
        THEN [ok |-> TRUE, v |-> JVal("obj", 0, <<>>, <<>>), n |-> i + 2]
        ELSE ParseMembers(toks, i + 1, <<>>)
      ELSE ParseFail

\* One JSON value and nothing after it.
ParseJson(text) ==
    LET l == Lex(text) IN
    IF ~l.ok THEN ParseFail
    ELSE LET p == ParseValue(l.toks, 1) IN
         IF p.ok /\ p.n = Len(l.toks) + 1 THEN p ELSE ParseFail

(***************************************************************************)
(* The typed layer: what derive(Deserialize) asks of the JSON value.       *)
(* Option<T> is [some, v]; None carries a default v of T's type so that    *)
(* two options of one type always compare.                                 *)
(***************************************************************************)
Some(x) == [some |-> TRUE, v |-> x]

NoneI64 == [some |-> FALSE, v |-> 0]

NoneText == [some |-> FALSE, v |-> <<>>]

\* Option::unwrap_or
UnwrapOr(o, d) == IF o.some THEN o.v ELSE d

\* the positions of the members named key
Members(items, key) == {i \in 1..Len(items) : items[i].k = key}

DeFail == [ok |-> FALSE, opt |-> NoneI64]

\* An optional field of kind "i64", "string" or "strings" (Vec<String>): absent or
\* null is None, a duplicate or a value of another type is a decode error.
DeOption(items, key, kind) ==
    LET at == Members(items, key)
        none == IF kind = "i64" THEN NoneI64 ELSE NoneText
    IN  IF at = {} THEN [ok |-> TRUE, opt |-> none]
        ELSE IF Cardinality(at) > 1 THEN DeFail
        ELSE LET v == items[CHOOSE i \in at : TRUE].v IN
          IF v.t = "null" THEN [ok |-> TRUE, opt |-> none]
          ELSE IF kind = "i64" /\ v.t = "num" THEN [ok |-> TRUE, opt |-> Some(v.n)]
          ELSE IF kind = "string" /\ v.t = "str" THEN [ok |-> TRUE, opt |-> Some(v.s)]
          ELSE IF kind = "strings" /\ v.t = "arr"
                  /\ \A i \in 1..Len(v.items) : v.items[i].t = "str"
               THEN [ok |-> TRUE,
                     opt |-> Some([i \in 1..Len(v.items) |-> v.items[i].s])]
          ELSE DeFail

\* The fields of Appointment that the model carries.
Appointment(id, start, start_time_slot, subjects, appointment_type) ==
    [id |-> id, start |-> start, start_time_slot |-> start_time_slot,
     subjects |-> subjects, appointment_type |-> appointment_type]

AppointmentFail ==
    [ok |-> FALSE, a |-> Appointment(NoneI64, NoneI64, NoneI64, NoneText, NoneText)]

DeAppointment(v) ==
    IF v.t # "obj" THEN AppointmentFail
    ELSE LET id == DeOption(v.items, KeyId, "i64")
             start == DeOption(v.items, KeyStart, "i64")
             slot == DeOption(v.items, Start_time_slot, "i64")
             subjects == DeOption(v.items, KeySubjects, "strings")
             type == DeOption(v.items, Appointment_type, "string")
         IN  IF id.ok /\ start.ok /\ slot.ok /\ subjects.ok /\ type.ok
             THEN [ok |-> TRUE,
                   a |-> Appointment(id.opt, start.opt, slot.opt, subjects.opt, type.opt)]
             ELSE AppointmentFail

\* A required field holding a value of type t: exactly one member of that name.
Required(v, key, t) ==
    /\ v.t = "obj"
    /\ Cardinality(Members(v.items, key)) = 1
    /\ v.items[CHOOSE i \in Members(v.items, key) : TRUE].v.t = t

Get(v, key) == v.items[CHOOSE i \in Members(v.items, key) : TRUE].v

FromStrFail == [ok |-> FALSE, data |-> <<>>]

\* AppointmentsResponse { response: AppointmentsResponseResponse { data } }
DeAppointmentsResponse(v) ==
    IF ~Required(v, KeyResponse, "obj") THEN FromStrFail
    ELSE LET r == Get(v, KeyResponse) IN
      IF ~Required(r, KeyData, "arr") THEN FromStrFail
      ELSE LET d == Get(r, KeyData).items
               as == [i \in 1..Len(d) |-> DeAppointment(d[i])]
           IN  IF \A i \in 1..Len(d) : as[i].ok
               THEN [ok |-> TRUE, data |-> [i \in 1..Len(d) |-> as[i].a]]
               ELSE FromStrFail

\* serde_json::from_str::<AppointmentsResponse>
FromStr(text) ==
    LET p == ParseJson(text) IN
    IF p.ok THEN DeAppointmentsResponse(p.v) ELSE FromStrFail

\* response.json::<AuthenticationResponse>(): access_token is a required String
AuthenticationResponse(text) ==
    LET p == ParseJson(text) IN
    IF p.ok /\ Required(p.v, KeyAccessToken, "str")
    THEN [ok |-> TRUE, access_token |-> Get(p.v, KeyAccessToken).s]
    ELSE [ok |-> FALSE, access_token |-> <<>>]

(***************************************************************************)
(* The upstream API's side: the JSON text of a response whose data array   *)
(* holds the given wire records.  A wire record has the wire names         *)
(* (startTimeSlot, type) and every field optional.                         *)
(***************************************************************************)
Wire(id, start, startTimeSlot, subjects, type) ==
    [id |-> id, start |-> start, startTimeSlot |-> startTimeSlot,
     subjects |-> subjects, type |-> type]

Quote(s) == <<QUOTE>> \o s \o <<QUOTE>>

RECURSIVE NatText(_)
NatText(n) ==
    IF n < 10 THEN <<Digits[n + 1]>> ELSE NatText(n \div 10) \o <<Digits[(n % 10) + 1]>>

NumText(n) == IF n < 0 THEN <<"-">> \o NatText(0 - n) ELSE NatText(n)

\* texts joined by commas
RECURSIVE Join(_)
Join(ts) ==
    IF ts = <<>> THEN <<>>
    ELSE IF Len(ts) = 1 THEN ts[1]
    ELSE ts[1] \o <<",">> \o Join(Tail(ts))

Member(key, text) == <<Quote(key) \o <<":">> \o text>>

WireText(w) ==
    <<"{">> \o Join(
        (IF w.id.some THEN Member(KeyId, NumText(w.id.v)) ELSE <<>>)
     \o (IF w.start.some THEN Member(KeyStart, NumText(w.start.v)) ELSE <<>>)
     \o (IF w.startTimeSlot.some
         THEN Member(StartTimeSlot, NumText(w.startTimeSlot.v)) ELSE <<>>)
     \o (IF w.subjects.some
         THEN Member(KeySubjects,
                <<"[">> \o Join([i \in 1..Len(w.subjects.v) |-> Quote(w.subjects.v[i])])
                \o <<"]">>)
         ELSE <<>>)
     \o (IF w.type.some THEN Member(Type, Quote(w.type.v)) ELSE <<>>))
    \o <<"}">>

KeyStatus == <<"s","t","a","t","u","s">>

\* {"response":{"status":200,"data":[...]}}
BodyText(ws) ==
    <<"{">> \o Join(Member(KeyResponse,
        <<"{">> \o Join(Member(KeyStatus, NumText(200))
                     \o Member(KeyData,
                          <<"[">> \o Join([i \in 1..Len(ws) |-> WireText(ws[i])])
                          \o <<"]">>))
        \o <<"}">>))
    \o <<"}">>

(***************************************************************************)
(* Sorting.  sort_unstable_by_key orders by the key and leaves the order   *)
(* of elements with equal keys unspecified; one build always orders them   *)
(* the same way.  The build's choice is tie_order: "keep" places an        *)
(* element after its equals (their order is kept), "flip" before them      *)
(* (their order is reversed).                                              *)
(***************************************************************************)
TieOrders == {"keep", "flip"}

\* A plausible slip: the key is the id.
SortKeyById(k) == UnwrapOr(k.id, 0)

\* A plausible slip: a missing start sorts last, as with unwrap_or(i64::MAX); the
\* default here is the largest number the checker holds.
SortKeyMissingLast(k) == UnwrapOr(k.start, 2147483647)

\* |k| k.start.unwrap_or(0)
SortKey(k) == UnwrapOr(k.start, 0)

\* A plausible slip: an element takes the place of the element with its key.
InsertOverEqual(v, x, ties) ==
    LET before == {i \in 1..Len(v) : SortKey(v[i]) < SortKey(x)}
        after == {i \in 1..Len(v) : SortKey(v[i]) > SortKey(x)}
    IN  SubSeq(v, 1, Cardinality(before)) \o <<x>>
        \o SubSeq(v, Len(v) - Cardinality(after) + 1, Len(v))

\* x placed into the sorted sequence v
Insert(v, x, ties) ==
    LET before == IF ties = "keep"
                  THEN {i \in 1..Len(v) : SortKey(v[i]) <= SortKey(x)}
                  ELSE {i \in 1..Len(v) : SortKey(v[i]) < SortKey(x)}
        n == Cardinality(before)
    IN  SubSeq(v, 1, n) \o <<x>> \o SubSeq(v, n + 1, Len(v))

\* A plausible slip: the sort is followed by dedup_by_key.
RECURSIVE SortThenDedup(_, _)
SortThenDedup(v, ties) ==
    IF v = <<>> THEN <<>>
    ELSE LET rest == SortThenDedup(SubSeq(v, 1, Len(v) - 1), ties) IN
         IF \E i \in 1..Len(rest) : SortKey(rest[i]) = SortKey(v[Len(v)])
         THEN rest ELSE Insert(rest, v[Len(v)], ties)

RECURSIVE SortUnstableByKey(_, _)
SortUnstableByKey(v, ties) ==
    IF v = <<>> THEN <<>>
    ELSE Insert(SortUnstableByKey(SubSeq(v, 1, Len(v) - 1), ties), v[Len(v)], ties)

(***************************************************************************)
(* The upstream service's answer to a request: the transport fails, or a   *)
(* response arrives with a status and a body, which reads as text or fails *)
(* to read.  The body is described by its shape: "schedule" is the JSON    *)
(* text of the wire records data, "cut" that text without its last        *)
(* character, "nodata" a response envelope without data, "token" the JSON  *)
(* text that carries the access token, "empty" no text at all.             *)
(***************************************************************************)
Reply(delivered, status, readable, shape, data, token) ==
    [delivered |-> delivered, status |-> status, readable |-> readable,
     shape |-> shape, data |-> data, token |-> token]

\* {"access_token":"..."}
TokenText(token) == <<"{">> \o Join(Member(KeyAccessToken, Quote(token))) \o <<"}">>

\* The text of the body of a reply.
Body(reply) ==
    IF reply.shape = "schedule" THEN BodyText(reply.data)
    ELSE IF reply.shape = "cut"
         THEN SubSeq(BodyText(reply.data), 1, Len(BodyText(reply.data)) - 1)
    ELSE IF reply.shape = "nodata"
         THEN <<"{">> \o Join(Member(KeyResponse, <<"{", "}">>)) \o <<"}">>
    ELSE IF reply.shape = "token" THEN TokenText(reply.token)
    ELSE <<>>

TransportFailure == Reply(FALSE, 0, FALSE, "empty", <<>>, <<>>)

\* A 200 response carrying the schedule ws.
Schedule200(ws) == Reply(TRUE, 200, TRUE, "schedule", ws, <<>>)

\* A 200 response carrying an access token.
Token200(token) == Reply(TRUE, 200, TRUE, "token", <<>>, token)

(***************************************************************************)
(* The results of the two fallible operations.  An error is the type of    *)
(* the boxed error with, for a ScheduleError, its message and, for an      *)
(* error that ? passes on from a library call, the call that raised it.    *)
(* cause names what went wrong: "transport" (no response), "status" (a     *)
(* status that is not 200), "read" (the body did not read) or "decode"     *)
(* (the body is not the JSON that was asked for).                          *)
(***************************************************************************)
Ok == [ok |-> TRUE, cause |-> "", err |-> "", msg |-> "", call |-> ""]

Err(cause, type, msg, call) ==
    [ok |-> FALSE, cause |-> cause, err |-> type, msg |-> msg, call |-> call]

\* A plausible slip: the status is checked with error_for_status()?.
NotOk200FromLibrary == Err("status", "reqwest::Error", "", "error_for_status")

\* return Err(Box::new(ScheduleError("response code is not 200")))
NotOk200 == Err("status", "ScheduleError", "response code is not 200", "")

\* A plausible slip: code.trim().
CleanCodeTrim(code) ==
    LET inner == {i \in 1..Len(code) : code[i] # " "} IN
    IF inner = {} THEN <<>>
    ELSE SubSeq(code, Min(inner), CHOOSE i \in inner : \A j \in inner : j <= i)

\* code.replace(" ", "")
CleanCode(code) == Replace(code, <<" ">>, <<>>)

\* Schedule::new after the request was sent: the outcome and the access token.
\* response.json() reads the body and decodes it in one call.
new(reply) ==
    IF ~reply.delivered
    THEN [res |-> Err("transport", "reqwest::Error", "", "send"), access_token |-> <<>>]
    ELSE IF reply.status # 200 THEN [res |-> NotOk200, access_token |-> <<>>]
    ELSE IF ~reply.readable
    THEN [res |-> Err("decode", "reqwest::Error", "", "json"), access_token |-> <<>>]
    ELSE LET json == AuthenticationResponse(Body(reply)) IN
         IF ~json.ok
         THEN [res |-> Err("decode", "reqwest::Error", "", "json"), access_token |-> <<>>]
         ELSE [res |-> Ok, access_token |-> json.access_token]

\* A plausible slip: self.appointments is emptied before the response is decoded.
get_appointments_clear_first(appointments, reply, ties) ==
    IF ~reply.delivered
    THEN [res |-> Err("transport", "reqwest::Error", "", "get"),
          appointments |-> appointments]
    ELSE IF reply.status # 200 THEN [res |-> NotOk200, appointments |-> appointments]
    ELSE IF ~reply.readable
    THEN [res |-> Err("read", "io::Error", "", "read_to_string"), appointments |-> <<>>]
    ELSE LET response == FromStr(RenamePass(Body(reply))) IN
         IF ~response.ok
         THEN [res |-> Err("decode", "serde_json::Error", "", "from_str"),
               appointments |-> <<>>]
         ELSE [res |-> Ok, appointments |-> SortUnstableByKey(response.data, ties)]

\* A plausible slip: self.appointments.extend(response.response.data).
get_appointments_extend(appointments, reply, ties) ==
    IF ~reply.delivered
    THEN [res |-> Err("transport", "reqwest::Error", "", "get"),
          appointments |-> appointments]
    ELSE IF reply.status # 200 THEN [res |-> NotOk200, appointments |-> appointments]
    ELSE IF ~reply.readable
    THEN [res |-> Err("read", "io::Error", "", "read_to_string"),
          appointments |-> appointments]
    ELSE LET response == FromStr(RenamePass(Body(reply))) IN
         IF ~response.ok
         THEN [res |-> Err("decode", "serde_json::Error", "", "from_str"),
               appointments |-> appointments]
         ELSE [res |-> Ok,
               appointments |-> SortUnstableByKey(appointments \o response.data, ties)]

\* Schedule::get_appointments after the request was sent: the outcome and the value
\* of self.appointments when it returns.
get_appointments(appointments, reply, ties) ==
    IF ~reply.delivered
    THEN [res |-> Err("transport", "reqwest::Error", "", "get"),
          appointments |-> appointments]
    ELSE IF reply.status # 200 THEN [res |-> NotOk200, appointments |-> appointments]
    ELSE IF ~reply.readable
    THEN [res |-> Err("read", "io::Error", "", "read_to_string"),
          appointments |-> appointments]
    ELSE LET response == FromStr(RenamePass(Body(reply))) IN
         IF ~response.ok
         THEN [res |-> Err("decode", "serde_json::Error", "", "from_str"),
               appointments |-> appointments]
         ELSE [res |-> Ok, appointments |-> SortUnstableByKey(response.data, ties)]

(***************************************************************************)
(* State.                                                                  *)
(***************************************************************************)
VARIABLES
    made,          \* a Schedule has been constructed
    school,        \* Schedule.school
    access_token,  \* Schedule.access_token
    appointments,  \* Schedule.appointments
    net,           \* the upstream's answer to the next request
    tie_order,     \* how this build's sort_unstable_by_key orders equal keys
    request,       \* the last request sent
    requests,      \* the number of requests sent
    result,        \* the last operation, its arguments and what it returned
    fetched,       \* the reply of the last successful get_appointments
    before,        \* Schedule.appointments when the last operation was called
    calls          \* the number of operations called

vars == <<made, school, access_token, appointments, net, tie_order, request,
          requests, result, fetched, before, calls>>

NoRequest ==
    [method |-> "", school |-> <<>>, path |-> "", code |-> <<>>, grant_type |-> "",
     start |-> 0, end |-> 0, access_token |-> <<>>]

\* POST https://{school}.zportal.nl/api/v3/oauth/token, form grant_type and code
TokenRequest(sch, code) ==
    [NoRequest EXCEPT !.method = "POST", !.school = sch, !.path = "/api/v3/oauth/token",
                      !.grant_type = "autorization_code", !.code = code]

\* GET https://{school}.zportal.nl/api/v3/appointments?user=~me&start=&end=&access_token=
AppointmentsRequest(sch, start, end, token) ==
    [NoRequest EXCEPT !.method = "GET", !.school = sch, !.path = "/api/v3/appointments",
                      !.start = start, !.end = end, !.access_token = token]

NotFetched == [some |-> FALSE, reply |-> TransportFailure]

NoArgs == [school |-> <<>>, code |-> <<>>, access_token |-> <<>>, start |-> 0, end |-> 0]

Returned(op, args, res) ==
    [op |-> op, args |-> args, ok |-> res.ok, cause |-> res.cause, err |-> res.err,
     msg |-> res.msg, call |-> res.call]

(***************************************************************************)
(* Operations.                                                             *)
(***************************************************************************)
\* Schedule::new(school, code)
New(sch, code) ==
    /\ calls < MaxCalls
    /\ calls' = calls + 1
    /\ before' = appointments
    /\ request' = TokenRequest(sch, CleanCode(code))
    /\ requests' = requests + 1
    /\ \E out \in {new(net)} :
        /\ result' = Returned("new", [NoArgs EXCEPT !.school = sch, !.code = code], out.res)
        /\ IF out.res.ok
           THEN /\ made' = TRUE
                /\ school' = sch
                /\ access_token' = out.access_token
                /\ appointments' = <<>>
                /\ fetched' = NotFetched
           ELSE UNCHANGED <<made, school, access_token, appointments, fetched>>
    /\ UNCHANGED <<net, tie_order>>

\* A plausible slip: the constructor checks the token with a request.
WithAccessTokenChecked(sch, token) ==
    /\ calls < MaxCalls
    /\ calls' = calls + 1
    /\ before' = appointments
    /\ made' = TRUE
    /\ school' = sch
    /\ access_token' = token
    /\ appointments' = <<>>
    /\ fetched' = NotFetched
    /\ request' = AppointmentsRequest(sch, 0, 0, token)
    /\ requests' = requests + 1
    /\ result' = Returned("with_access_token",
                          [NoArgs EXCEPT !.school = sch, !.access_token = token], Ok)
    /\ UNCHANGED <<net, tie_order>>

\* Schedule::with_access_token(school, access_token)
WithAccessToken(sch, token) ==
    /\ calls < MaxCalls
    /\ calls' = calls + 1
    /\ before' = appointments
    /\ made' = TRUE
    /\ school' = sch
    /\ access_token' = token
    /\ appointments' = <<>>
    /\ fetched' = NotFetched
    /\ result' = Returned("with_access_token",
                          [NoArgs EXCEPT !.school = sch, !.access_token = token], Ok)
    /\ UNCHANGED <<net, tie_order, request, requests>>

\* Schedule::get_appointments(&mut self, start, end)
GetAppointments(start, end) ==
    /\ made
    /\ calls < MaxCalls
    /\ calls' = calls + 1
    /\ before' = appointments
    /\ request' = AppointmentsRequest(school, start, end, access_token)
    /\ requests' = requests + 1
    /\ \E out \in {get_appointments(appointments, net, tie_order)} :
        /\ result' = Returned("get_appointments",
                              [NoArgs EXCEPT !.start = start, !.end = end], out.res)
        /\ appointments' = out.appointments
        /\ fetched' = IF out.res.ok THEN [some |-> TRUE, reply |-> net] ELSE fetched
    /\ UNCHANGED <<made, school, access_token, net, tie_order>>

(***************************************************************************)
(* Inputs.                                                                 *)
(***************************************************************************)
\* sequences over S of length at most n
SeqsUpTo(S, n) == UNION {[1..k -> S] : k \in 0..n}

Schools == {<<"s","1">>}

Tokens == {<<"t","1">>, <<"t","2">>}

Ranges == {<<0, 1>>, <<1, 0>>}

\* Wire records that differ in id and cover the sort keys: no start (twice), 0,
\* a negative and a positive start.
SortWires ==
    {Wire(Some(1), NoneI64, NoneI64, NoneText, NoneText),
     Wire(Some(2), NoneI64, NoneI64, NoneText, NoneText),
     Wire(Some(3), Some(0), NoneI64, NoneText, NoneText),
     Wire(Some(4), Some(-1), NoneI64, NoneText, NoneText),
     Wire(Some(5), Some(1), NoneI64, NoneText, NoneText)}

\* The record of the documented example, shortened.
Lesson == <<"l","e","s","s","o","n">>

Example == Wire(Some(5), Some(42364236), Some(1), Some(<<<<"n","e">>>>), Some(Lesson))

\* The answers of the upstream in the client specification.
Replies ==
    {TransportFailure,
     Reply(TRUE, 500, TRUE, "empty", <<>>, <<>>),
     Reply(TRUE, 500, TRUE, "schedule", <<Example>>, <<>>),
     Reply(TRUE, 200, FALSE, "schedule", <<Example>>, <<>>),
     Reply(TRUE, 200, TRUE, "cut", <<Example>>, <<>>),
     Reply(TRUE, 200, TRUE, "nodata", <<>>, <<>>),
     Token200(<<"t","1">>)}
    \cup {Schedule200(ws) : ws \in {<<>>, <<Example>>} \cup SeqsUpTo(SortWires, 1)}

(***************************************************************************)
(* The client specification: any sequence of at most MaxCalls operations,  *)
(* with the upstream changing its answer in between.                       *)
(***************************************************************************)
Init ==
    /\ made = FALSE
    /\ school = <<>>
    /\ access_token = <<>>
    /\ appointments = <<>>
    /\ net \in Replies
    /\ tie_order \in TieOrders
    /\ request = NoRequest
    /\ requests = 0
    /\ result = Returned("none", NoArgs, Ok)
    /\ fetched = NotFetched
    /\ before = <<>>
    /\ calls = 0

\* The upstream's next answer changes.
Upstream ==
    /\ net' \in Replies \ {net}
    /\ UNCHANGED <<made, school, access_token, appointments, tie_order, request,
                   requests, result, fetched, before, calls>>

Next ==
    \/ Upstream
    \/ \E sch \in Schools, code \in {<<"c"," ","1">>} : New(sch, code)
    \/ \E sch \in Schools, token \in Tokens : WithAccessToken(sch, token)
    \/ \E r \in Ranges : GetAppointments(r[1], r[2])

Spec == Init /\ [][Next]_vars

(***************************************************************************)
(* The sorting specification: a client made by with_access_token fetches a *)
(* schedule of at most MaxRecs records, every list over SortWires.         *)
(***************************************************************************)
Constructed(replies) ==
    /\ made = TRUE
    /\ school = <<"s","1">>
    /\ access_token = <<"t","1">>
    /\ appointments = <<>>
    /\ net \in replies
    /\ tie_order \in TieOrders
    /\ request = NoRequest
    /\ requests = 0
    /\ result = Returned("with_access_token",
                         [NoArgs EXCEPT !.school = <<"s","1">>, !.access_token = <<"t","1">>],
                         Ok)
    /\ fetched = NotFetched
    /\ before = <<>>
    /\ calls = 1

InitSort == Constructed({Schedule200(ws) : ws \in SeqsUpTo(SortWires, MaxRecs)})

NextSort == GetAppointments(0, 1)

SpecSort == InitSort /\ [][NextSort]_vars

(***************************************************************************)
(* The renaming specification: a client made by with_access_token fetches  *)
(* a schedule of one record whose type, or whose only subject, is any text *)
(* of at most MaxText letters of the word "type".                          *)
(***************************************************************************)
MaxText == 4

Texts == SeqsUpTo({"t", "y", "p", "e"}, MaxText)

RenameWires ==
    {Wire(Some(1), Some(1), Some(1), NoneText, Some(v)) : v \in Texts}
    \cup {Wire(Some(1), Some(1), NoneI64, Some(<<v>>), Some(Lesson)) : v \in Texts}

InitRename == Constructed({Schedule200(<<w>>) : w \in RenameWires})

NextRename == GetAppointments(0, 1)

SpecRename == InitRename /\ [][NextRename]_vars

(***************************************************************************)
(* The authentication specification: Schedule::new with every code of at   *)
(* most MaxCode characters over a letter, the space and the tab.           *)
(***************************************************************************)
CodeChars == {"a", " ", "\t"}

Codes == SeqsUpTo(CodeChars, MaxCode)

AuthReplies ==
    {TransportFailure,
     Reply(TRUE, 401, TRUE, "empty", <<>>, <<>>),
     Reply(TRUE, 200, TRUE, "nodata", <<>>, <<>>),
     Token200(<<"t","1">>)}

InitAuth ==
    /\ made = FALSE
    /\ school = <<>>
    /\ access_token = <<>>
    /\ appointments = <<>>
    /\ net \in AuthReplies
    /\ tie_order \in TieOrders
    /\ request = NoRequest
    /\ requests = 0
    /\ result = Returned("none", NoArgs, Ok)
    /\ fetched = NotFetched
    /\ before = <<>>
    /\ calls = 0

NextAuth == \E sch \in Schools, code \in Codes : New(sch, code)

SpecAuth == InitAuth /\ [][NextAuth]_vars

(***************************************************************************)
(* Properties.  What a property expects is computed from the wire records  *)
(* of the reply (fetched.reply.data) and from the claim's own key, not     *)
(* from the operators of the model.                                        *)
(***************************************************************************)
\* the claim's sort key: the start if present, else 0
ClaimKey(a) == IF a.start.some THEN a.start.v ELSE 0

\* the domain record a wire record stands for: the wire names renamed, the values kept
Renamed(w) ==
    [id |-> w.id, start |-> w.start, start_time_slot |-> w.startTimeSlot,
     subjects |-> w.subjects, appointment_type |-> w.type]

\* the domain records the last successful fetch was sent, in the order of the response
Expected == [i \in 1..Len(fetched.reply.data) |-> Renamed(fetched.reply.data[i])]

Count(v, x) == Cardinality({i \in 1..Len(v) : v[i] = x})

\* v is a permutation of w
Permutation(v, w) ==
    /\ Len(v) = Len(w)
    /\ \A i \in 1..Len(w) : Count(v, w[i]) = Count(w, w[i])

\* the records of v whose key is k, in the order of v
WithKey(v, k) == LET has(a) == ClaimKey(a) = k IN SelectSeq(v, has)

KeysOf(v) == {ClaimKey(v[i]) : i \in 1..Len(v)}

Missing(v) == {i \in 1..Len(v) : ~v[i].start.some}

\* the last operation was a get_appointments that failed
FetchFailed == result.op = "get_appointments" /\ ~result.ok

\* the last operation was a get_appointments that succeeded
FetchSucceeded == result.op = "get_appointments" /\ result.ok

\* C1: after a successful get_appointments the stored list is ordered by start
\* ascending, a record with no start counting as start 0.
C1_SortedByStart ==
    fetched.some =>
        \A i \in 1..(Len(appointments) - 1) :
            ClaimKey(appointments[i]) <= ClaimKey(appointments[i + 1])

\* A fetch of three records, one without start, that arrived out of order.
C1_Witness ==
    /\ FetchSucceeded
    /\ Len(appointments) = 3
    /\ Missing(appointments) # {}
    /\ \E i \in 1..2 : ClaimKey(Expected[i]) > ClaimKey(Expected[i + 1])

\* C2 as claimed: the sort is stable, so the records of one sort key are in the
\* result in the order they have in the response.
C2_Stable ==
    fetched.some =>
        \A k \in KeysOf(Expected) : WithKey(appointments, k) = WithKey(Expected, k)

\* C2 as amended: the sort is not stable.  The records of one sort key are all in the
\* result, in an order the sort leaves unspecified: a permutation of their order in
\* the response.
C2_EqualKeysPermuted ==
    fetched.some =>
        \A k \in KeysOf(Expected) :
            Permutation(WithKey(appointments, k), WithKey(Expected, k))

\* A fetch whose response holds a record without start and a record with start 0,
\* stored in the other order.
C2_Witness ==
    /\ FetchSucceeded
    /\ Len(WithKey(Expected, 0)) >= 2
    /\ Missing(Expected) # {}
    /\ WithKey(appointments, 0) # WithKey(Expected, 0)

\* C3: a failed get_appointments leaves the stored list as it was, whatever failed
\* (transport, status, reading the body, decoding); the list changes only when an
\* operation succeeds.
C3_FailedFetchKeepsList ==
    /\ FetchFailed => appointments = before
    /\ appointments # before => result.ok

\* A fetch that failed at the last step, the decoding, after a fetch had stored records.
C3_Witness ==
    /\ FetchFailed
    /\ result.cause = "decode"
    /\ before # <<>>
    /\ net.status = 200

\* C4 as claimed: the renaming pass changes property names only, so every value of
\* the wire record (the type, the subjects) is in the domain record unchanged.
C4_ValuesUnchanged ==
    FetchSucceeded => appointments = Expected

\* C5: a successful get_appointments on a response of N records stores N records, a
\* permutation of the records of the response.
C5_CountAndPermutation ==
    fetched.some =>
        /\ Len(appointments) = Len(fetched.reply.data)
        /\ Permutation(appointments, Expected)

\* A fetch of three records that the sort reordered.
C5_Witness ==
    /\ FetchSucceeded
    /\ Len(fetched.reply.data) = 3
    /\ appointments # Expected

\* C6: the stored list is the sorted data of the most recent successful fetch and
\* nothing else (the same number of records, the same records, in key order), and a
\* successful fetch of the response that was fetched last leaves the list as it was.
C6_Overwrite ==
    /\ [](fetched.some =>
            /\ Permutation(appointments, Expected)
            /\ \A i \in 1..(Len(appointments) - 1) :
                 ClaimKey(appointments[i]) <= ClaimKey(appointments[i + 1]))
    /\ [][(/\ calls' = calls + 1
           /\ result'.op = "get_appointments" /\ result'.ok
           /\ fetched.some /\ fetched.reply = net)
          => appointments' = appointments]_vars

\* A successful fetch on a client that held other records from an earlier fetch.
C6_Witness ==
    /\ FetchSucceeded
    /\ before # <<>>
    /\ appointments # <<>>
    /\ \A i \in 1..Len(before) : Count(appointments, before[i]) = 0

\* C7 as claimed: every record without start is before every record whose start is
\* present and not 0, negative starts included.
C7_MissingFirst ==
    fetched.some =>
        \A i, j \in 1..Len(appointments) :
            (/\ ~appointments[i].start.some
             /\ appointments[j].start.some /\ appointments[j].start.v # 0) => i < j

\* C7 as amended: every record without start is before every record whose start is
\* greater than 0 and after every record whose start is less than 0.
C7_MissingBeforePositive ==
    fetched.some =>
        \A i, j \in 1..Len(appointments) :
            (~appointments[i].start.some /\ appointments[j].start.some) =>
                /\ appointments[j].start.v > 0 => i < j
                /\ appointments[j].start.v < 0 => j < i

\* A fetch that stored a record with a negative start, one without start and one with
\* a positive start, sent in another order.
C7_Witness ==
    /\ FetchSucceeded
    /\ Missing(appointments) # {}
    /\ \E j \in 1..Len(appointments) :
         appointments[j].start.some /\ appointments[j].start.v < 0
    /\ \E j \in 1..Len(appointments) :
         appointments[j].start.some /\ appointments[j].start.v > 0
    /\ appointments # Expected

\* the characters of code that are not in drop, in their order
Without(code, drop) == LET keep(c) == c \notin drop IN SelectSeq(code, keep)

\* C8 as claimed: the code sent in the token-exchange form holds no whitespace
\* character and is the input's other characters in their order.
C8_NoWhitespace ==
    result.op = "new" =>
        /\ \A i \in 1..Len(request.code) : request.code[i] \notin Whitespace
        /\ request.code = Without(result.args.code, Whitespace)

\* C8 as amended: the code sent holds no space character (U+0020) and is the input's
\* other characters, tabs and line breaks included, in their order.
C8_NoSpaces ==
    result.op = "new" =>
        /\ request.method = "POST"
        /\ \A i \in 1..Len(request.code) : request.code[i] # " "
        /\ request.code = Without(result.args.code, {" "})

\* A token exchange whose code held a space between other characters, a tab among them.
C8_Witness ==
    /\ result.op = "new"
    /\ \E i \in 2..(Len(result.args.code) - 1) : result.args.code[i] = " "
    /\ \E i \in 1..Len(result.args.code) : result.args.code[i] = "\t"
    /\ Len(request.code) = Len(result.args.code) - 1

\* an error as its caller sees it
ErrorOf(res) == [err |-> res.err, msg |-> res.msg, call |-> res.call]

\* what operation op returns on reply r (the order of equal keys plays no part)
ResultOn(op, r) ==
    IF op = "new" THEN new(r).res ELSE get_appointments(<<>>, r, "keep").res

\* one reply for each way to fail: no response, a status that is not 200, a body
\* that does not read, a body that is not the JSON asked for
FailingReplies ==
    {TransportFailure,
     Reply(TRUE, 500, TRUE, "empty", <<>>, <<>>),
     Reply(TRUE, 200, FALSE, "nodata", <<>>, <<>>),
     Reply(TRUE, 200, TRUE, "nodata", <<>>, <<>>)}

\* the failures of the two operations on these replies: the cause and the error
Failures ==
    {[op |-> op, cause |-> ResultOn(op, r).cause, error |-> ErrorOf(ResultOn(op, r))] :
        op \in {"new", "get_appointments"}, r \in FailingReplies}

\* the errors that failures of the given cause give in operation op
ErrorsOf(op, cause) == {f.error : f \in {x \in Failures : x.op = op /\ x.cause = cause}}

Causes == {"transport", "status", "read", "decode"}

Other(op) == IF op = "new" THEN "get_appointments" ELSE "new"

C10_WithAccessToken ==
    /\ [][(calls' = calls + 1 /\ result'.op = "with_access_token") =>
            /\ requests' = requests /\ request' = request
            /\ result'.ok
            /\ made'
            /\ school' = result'.args.school
            /\ access_token' = result'.args.access_token
            /\ appointments' = <<>>]_vars
    /\ [][(calls' = calls + 1 /\ result'.op = "new" /\ result'.ok) =>
            /\ made'
            /\ school' = result'.args.school
            /\ access_token' = net.token
            /\ appointments' = <<>>]_vars
    /\ []((made /\ ~fetched.some) => appointments = <<>>)

\* A client made by with_access_token, without any request, whose first fetch failed.
C10_Witness ==
    /\ made
    /\ requests = 1
    /\ calls = 2
    /\ FetchFailed
    /\ school = <<"s","1">> /\ access_token = <<"t","2">>
    /\ appointments = <<>>

====
